---- MODULE Spec2Model ----
(***************************************************************************)
(* Workout tracker (src/app.py): the recommendation rule, the history      *)
(* aggregation, the Streamlit script run with its rest timer and "Save     *)
(* workout" handler, and the JSON store behind load_data / save_data.      *)
(*                                                                         *)
(* Representation of values                                                *)
(*   weight   a Python float, held as an integer number of thousandths     *)
(*            (135.0 is 135000).  Products with 1.025 are held in          *)
(*            millionths (weight * 1025).                                  *)
(*   text     a sequence of one-character strings                          *)
(*   date     the "%Y-%m-%d %H:%M" string, held as the minute it names     *)
(*            (these strings order exactly as their minutes do)            *)
(*   file     [exists, text] where text is the sequence of JSON tokens     *)
(*            json.dumps wrote                                             *)
(***************************************************************************)
EXTENDS Integers, Sequences, FiniteSets, TLC

VARIABLES
    pc,             \* position of the specification's driver
    weights,        \* script local: parsed weights of the form   (line 98)
    reps,           \* script local: parsed reps of the form      (line 99)
    target_reps,    \* widget "Target reps per set"               (line 93)
    rec,            \* script local: live recommendation          (line 134)
    exercise,       \* widget "Exercise" text                     (line 92)
    workout_type,   \* widget "Workout Type"                      (line 85)
    w_txt,          \* widgets "Set i weight", keys w0..          (line 105)
    r_txt,          \* widgets "Set i reps", keys r0..            (line 112)
    save_clicked,   \* value of st.button("Save workout")         (line 137)
    message,        \* st.error / st.success of the save handler  (lines 139, 149)
    data,           \* script local: the session list             (line 82)
    rows,           \* script local: the flattened history        (line 155)
    rec_rows,       \* script local: latest recommendations       (line 177)
    data_p,         \* the same sessions in another input order
    rec_rows_p,     \* rec_rows computed from data_p
    file,           \* workouts.json                              (line 9)
    save_calls,     \* number of calls of save_data so far
    timer_running,  \* st.session_state.timer_running             (line 57)
    timer_end,      \* st.session_state.timer_end                 (line 59)
    timer_display,  \* what the timer placeholder shows           (line 69)
    now,            \* time.time(), whole seconds
    procs,          \* store runs: each script run's position and locals
    committed       \* store runs: the last collection completely on disk

vars == <<pc, weights, reps, target_reps, rec, exercise, workout_type, w_txt,
          r_txt, save_clicked, message, data, rows, rec_rows, data_p, rec_rows_p,
          file, save_calls, timer_running, timer_end, timer_display, now,
          procs, committed>>

recVars   == <<weights, reps, target_reps, rec>>
formVars  == <<exercise, workout_type, w_txt, r_txt, save_clicked, message>>
histVars  == <<data, rows, rec_rows>>
permVars  == <<data_p, rec_rows_p>>
storeVars == <<file, save_calls>>
timerVars == <<timer_running, timer_end, timer_display, now>>
procVars  == <<procs, committed>>

(***************************************************************************)
(* Bounds of the model.                                                    *)
(***************************************************************************)
\* longest weights / reps list given to recommend_next_week on its own
MaxSets == 3
\* most sessions in a stored collection
MaxSessions == 2
\* seconds of wall-clock time followed after the application starts
MaxElapsed == 5

(***************************************************************************)
(* Generic helpers.                                                        *)
(***************************************************************************)
Min(a, b) == IF a <= b THEN a ELSE b

Range(s) == {s[i] : i \in 1..Len(s)}

SeqsUpTo(S, n) == UNION {[1..k -> S] : k \in 0..n}

IsPrefix(s, t) == Len(s) <= Len(t) /\ \A i \in 1..Len(s) : s[i] = t[i]

(***************************************************************************)
(* round(x, 2).  The argument is in millionths, the result in thousandths  *)
(* (always a multiple of 10).  Python rounds the double to the nearest     *)
(* 2-decimal value and resolves an exact tie to the even neighbour; the    *)
(* weights of this model are chosen so that every product is either no     *)
(* decimal tie or a double that holds the tie exactly (135 * 1.025 is the  *)
(* double 138.375), so the decimal computation below is the one CPython    *)
(* performs on them.                                                       *)
(***************************************************************************)
Round2(x) ==
    LET q == x \div 10000
        r == x % 10000
    IN  IF r > 5000 THEN (q + 1) * 10
        ELSE IF r < 5000 THEN q * 10
        ELSE (q + (q % 2)) * 10

(***************************************************************************)
(* recommend_next_week (lines 22-38).                                      *)
(***************************************************************************)
\* zip(weights, reps): pairs up to the shorter length
Zip(ws, rs) == [i \in 1..Min(Len(ws), Len(rs)) |-> <<ws[i], rs[i]>>]

working_keep_nonzero(ws, rs) == SelectSeq(Zip(ws, rs), LAMBDA p : p[1] # 0)

\* line 29
working(ws, rs) == SelectSeq(Zip(ws, rs), LAMBDA p : p[1] > 0)

RECURSIVE MaxWeight(_)
\* max(w for w, _ in working) over a non-empty list
MaxWeight(wk) ==
    IF Len(wk) = 1 THEN wk[1][1]
    ELSE LET m == MaxWeight(Tail(wk))
         IN  IF wk[1][1] >= m THEN wk[1][1] ELSE m

hit_all_any(wk, t) == \E i \in 1..Len(wk) : wk[i][2] >= t

\* line 34
hit_all(wk, t) == \A i \in 1..Len(wk) : wk[i][2] >= t

recommend_next_week(ws, rs, t) ==
    LET wk == working(ws, rs)
    IN  IF Len(wk) = 0 THEN 0
        ELSE LET top_weight == MaxWeight(wk)
             IN  IF hit_all(wk, t) THEN Round2(top_weight * 1025)
                 ELSE Round2(top_weight * 1000)

(***************************************************************************)
(* History rows (lines 155-166).  A session is the dict appended at lines  *)
(* 141-147: [date, workout_type, exercise, target_reps, sets], sets a list *)
(* of [weight, reps].                                                      *)
(***************************************************************************)
Row(entry, idx, s) ==
    [Date       |-> entry.date,
     Workout    |-> entry.workout_type,
     Exercise   |-> entry.exercise,
     Set        |-> idx,
     Weight     |-> s.weight,
     Reps       |-> s.reps,
     TargetReps |-> entry.target_reps]

SessionRows_from0(entry) ==
    [i \in 1..Len(entry.sets) |-> Row(entry, i - 1, entry.sets[i])]

\* the inner loop: enumerate(entry["sets"], start=1)
SessionRows(entry) ==
    [i \in 1..Len(entry.sets) |-> Row(entry, i, entry.sets[i])]

RECURSIVE Flatten(_)
\* the outer loop: for entry in data
Flatten(d) ==
    IF Len(d) = 0 THEN <<>>
    ELSE SessionRows(Head(d)) \o Flatten(Tail(d))

(***************************************************************************)
(* Latest recommendations (lines 175-185).                                 *)
(*                                                                         *)
(* df.sort_values("Date") sorts with the default kind="quicksort", which   *)
(* pandas documents as not stable.  On the object column of date strings   *)
(* it is numpy's introsort, which only insertion-sorts (and so keeps the   *)
(* order of equal dates) a frame of at most StableSortLimit rows; a larger *)
(* frame is partitioned, and rows with equal dates can come out in any     *)
(* order.  LatestChoices is the set of results groupby("Exercise").tail(1) *)
(* can then give.                                                          *)
(***************************************************************************)
StableSortLimit == 17

RECURSIVE InsertDescending(_, _)
InsertDescending(r, s) ==
    IF Len(s) = 0 THEN <<r>>
    ELSE IF r.Date > s[Len(s)].Date
         THEN InsertDescending(r, SubSeq(s, 1, Len(s) - 1)) \o <<s[Len(s)]>>
         ELSE s \o <<r>>

RECURSIVE SortDescending(_)
SortDescending(rs) ==
    IF Len(rs) = 0 THEN <<>>
    ELSE InsertDescending(rs[Len(rs)], SortDescending(SubSeq(rs, 1, Len(rs) - 1)))

RECURSIVE Insert(_, _)
\* r goes after every row whose date is not later than its own
Insert(r, s) ==
    IF Len(s) = 0 THEN <<r>>
    ELSE IF r.Date < s[Len(s)].Date
         THEN Insert(r, SubSeq(s, 1, Len(s) - 1)) \o <<s[Len(s)]>>
         ELSE s \o <<r>>

RECURSIVE SortByDate(_)
\* sort_values("Date") where it is stable: ascending, equal dates in input order
SortByDate(rs) ==
    IF Len(rs) = 0 THEN <<>>
    ELSE Insert(rs[Len(rs)], SortByDate(SubSeq(rs, 1, Len(rs) - 1)))

\* groupby("Exercise").tail(1): the last row of each exercise, in frame order
GroupTail(rs) ==
    LET keep == {i \in 1..Len(rs) :
                    \A j \in (i + 1)..Len(rs) : rs[j].Exercise # rs[i].Exercise}
        F[i \in 0..Len(rs)] ==
            IF i = 0 THEN <<>>
            ELSE IF i \in keep THEN F[i - 1] \o <<rs[i]>> ELSE F[i - 1]
    IN  F[Len(rs)]

Exercises(rs) == {rs[i].Exercise : i \in 1..Len(rs)}

MaxDate(rs, e) ==
    LET D == {rs[i].Date : i \in {j \in 1..Len(rs) : rs[j].Exercise = e}}
    IN  CHOOSE d \in D : \A x \in D : x <= d

\* indices of the rows of exercise e that carry its latest date
LatestRows(rs, e) ==
    LET m == MaxDate(rs, e)
    IN  {i \in 1..Len(rs) : rs[i].Exercise = e /\ rs[i].Date = m}

LatestChoices(rs) ==
    IF Len(rs) <= StableSortLimit
    THEN {GroupTail(SortByDate(rs))}
    ELSE LET E == Exercises(rs)
             n == Cardinality(E)
             L == [e \in E |-> LatestRows(rs, e)]
             Picks == {p \in [E -> UNION {L[e] : e \in E}] : \A e \in E : p[e] \in L[e]}
             Orders == {o \in [1..n -> E] :
                          \A i, j \in 1..n : i # j => o[i] # o[j]}
         IN  {[i \in 1..n |-> rs[p[o[i]]]] :
                 <<p, o>> \in {po \in Picks \X Orders :
                     \A i, j \in 1..n :
                         i < j => rs[po[1][po[2][i]]].Date <= rs[po[1][po[2][j]]].Date}}

\* lines 179-185
RecRow(r) ==
    LET hit == r.Reps >= r.TargetReps
    IN  [Exercise        |-> r.Exercise,
         LastWeight      |-> r.Weight,
         HitTargetReps   |-> hit,
         Recommended     |-> Round2(r.Weight * (IF hit THEN 1025 ELSE 1000))]

\* the values rec_rows can have after line 185
RecRowsChoices(rs) ==
    {[i \in 1..Len(latest) |-> RecRow(latest[i])] : latest \in LatestChoices(rs)}

(***************************************************************************)
(* Values the variables of the other parts hold while one part is checked. *)
(***************************************************************************)
NoFile == [exists |-> FALSE, text |-> <<>>]

RecIdle   == weights = <<>> /\ reps = <<>> /\ target_reps = 10 /\ rec = 0
FormIdle  == /\ exercise = <<>> /\ workout_type = "Upper"
             /\ w_txt = <<>> /\ r_txt = <<>>
             /\ save_clicked = FALSE /\ message = ""
HistIdle  == data = <<>> /\ rows = <<>> /\ rec_rows = <<>>
PermIdle  == data_p = <<>> /\ rec_rows_p = <<>>
StoreIdle == file = NoFile /\ save_calls = 0
TimerIdle == /\ timer_running = FALSE /\ timer_end = 0
             /\ timer_display = "" /\ now = 0
ProcIdle  == procs = <<>> /\ committed = <<>>

(***************************************************************************)
(* SpecRec: recommend_next_week applied to bounded inputs.                 *)
(***************************************************************************)
\* -5.0, 0.0, 0.125, 135.0, 140.0
WeightVals == {-5000, 0, 125, 135000, 140000}
RepVals    == {0, 9, 10}
TargetVals == {1, 10}

RecInit ==
    /\ pc = "input"
    /\ \E n \in 0..MaxSets :
          /\ weights \in [1..n -> WeightVals]
          /\ reps \in [1..n -> RepVals]
    /\ target_reps \in TargetVals
    /\ rec = 0
    /\ FormIdle /\ HistIdle /\ PermIdle /\ StoreIdle /\ TimerIdle /\ ProcIdle

Recommend ==
    /\ pc = "input"
    /\ rec' = recommend_next_week(weights, reps, target_reps)
    /\ pc' = "done"
    /\ UNCHANGED <<weights, reps, target_reps, formVars, histVars, permVars,
                   storeVars, timerVars, procVars>>

RecNext == Recommend

SpecRec == RecInit /\ [][RecNext]_vars

\* the sets with weight > 0, by position
WorkingIdx == {i \in 1..Len(weights) : weights[i] > 0}

TopOf(I) == CHOOSE t \in {weights[i] : i \in I} : \A i \in I : weights[i] <= t

AllHit(I) == \A i \in I : reps[i] >= target_reps

Abs(x) == IF x < 0 THEN -x ELSE x

\* r (thousandths) is x (millionths) rounded to 2 decimals: a whole number of
\* hundredths, and no other one is nearer to x
IsRounded2(r, x) == r % 10 = 0 /\ Abs(r * 1000 - x) <= 5000

\* C1: with at least one set of weight > 0, the result is top_weight * 1.025
\* rounded to 2 decimals when every set of weight > 0 has reps >= target_reps,
\* and top_weight rounded to 2 decimals otherwise; top_weight is the largest
\* weight among the sets of weight > 0, and sets of weight 0 count for nothing.
C1_Recommendation ==
    (pc = "done" /\ WorkingIdx # {}) =>
        IsRounded2(rec, TopOf(WorkingIdx) * (IF AllHit(WorkingIdx) THEN 1025 ELSE 1000))

\* a zero-weight set that misses the target beside working sets that all hit
\* it: the result is the raised top weight, and rounding changed it
C1_Witness ==
    /\ pc = "done"
    /\ \E i \in 1..Len(weights) : weights[i] = 0 /\ reps[i] < target_reps
    /\ Cardinality(WorkingIdx) >= 2
    /\ AllHit(WorkingIdx)
    /\ rec > TopOf(WorkingIdx)
    /\ rec * 1000 # TopOf(WorkingIdx) * 1025

\* C2: the result is 0 whenever no set has weight > 0, whatever the reps and
\* the target are.
C2_NoWorkingSets ==
    (pc = "done" /\ WorkingIdx = {}) => rec = 0

\* two sets, none of weight > 0, one of weight 0 that meets the target
C2_Witness ==
    /\ pc = "done"
    /\ Len(weights) >= 2
    /\ WorkingIdx = {}
    /\ \E i \in 1..Len(weights) : weights[i] = 0 /\ reps[i] >= target_reps
    /\ \E i \in 1..Len(weights) : weights[i] < 0
    /\ rec = 0

(***************************************************************************)
(* SpecAgg: the history block (lines 154-187) applied to bounded session   *)
(* collections, once to the sessions in one order and once to the same     *)
(* sessions in another order.                                              *)
(***************************************************************************)
\* st.number_input("How many sets?", max_value=10)
MaxNumSets == 10

SetA == [weight |-> 100000, reps |-> 10]
SetB == [weight |-> 135000, reps |-> 8]
SetC == [weight |-> 125, reps |-> 10]

\* no set, two sets, and a full form whose last set differs from the others
SampleSets ==
    {<<>>, <<SetB, SetC>>,
     [i \in 1..MaxNumSets |-> IF i < MaxNumSets THEN SetA ELSE SetB]}

SampleExercises == {<<"B">>, <<"S">>}
SampleDates == {1, 2}

SampleSession(d, e, ss) ==
    [date         |-> d,
     workout_type |-> IF e = <<"B">> THEN "Push" ELSE "Legs",
     exercise     |-> e,
     target_reps  |-> IF e = <<"B">> THEN 10 ELSE 8,
     sets         |-> ss]

SampleSessions ==
    {SampleSession(d, e, ss) : d \in SampleDates, e \in SampleExercises, ss \in SampleSets}

Reorderings(d) ==
    {[i \in 1..Len(d) |-> d[f[i]]] :
        f \in {g \in [1..Len(d) -> 1..Len(d)] :
                  \A i, j \in 1..Len(d) : i # j => g[i] # g[j]}}

AggInit ==
    /\ pc = "start"
    /\ data \in SeqsUpTo(SampleSessions, MaxSessions)
    /\ data_p \in Reorderings(data)
    /\ rows = <<>> /\ rec_rows = <<>> /\ rec_rows_p = <<>>
    /\ RecIdle /\ FormIdle /\ StoreIdle /\ TimerIdle /\ ProcIdle

\* lines 154-187 on data.  With sessions but no row at all, pd.DataFrame(rows)
\* has no "Date" column and line 170 raises KeyError: the run ends there.
ViewHistory ==
    /\ pc = "start"
    /\ rows' = Flatten(data)
    /\ IF Len(rows') = 0
       THEN rec_rows' = <<>> /\ pc' = (IF Len(data) = 0 THEN "viewed" ELSE "error")
       ELSE rec_rows' \in RecRowsChoices(rows') /\ pc' = "viewed"
    /\ UNCHANGED <<data, permVars, recVars, formVars, storeVars, timerVars, procVars>>

\* the same block on the reordered sessions
ViewReordered ==
    /\ pc = "viewed"
    /\ IF Len(Flatten(data_p)) = 0
       THEN rec_rows_p' = <<>>
       ELSE rec_rows_p' \in RecRowsChoices(Flatten(data_p))
    /\ pc' = "both"
    /\ UNCHANGED <<data_p, histVars, recVars, formVars, storeVars, timerVars, procVars>>

AggNext == ViewHistory \/ ViewReordered

SpecAgg == AggInit /\ [][AggNext]_vars

RECURSIVE SetsBefore(_, _)
\* number of sets in the sessions before the k-th
SetsBefore(d, k) ==
    IF k <= 1 THEN 0 ELSE SetsBefore(d, k - 1) + Len(d[k - 1].sets)

\* C3: the history table has one row per set of every session (a session
\* without sets gives none); the i-th set of a session gives a row with that
\* session's date, workout type, exercise and target_reps and set index i.
C3_FlattenRows ==
    pc # "start" =>
        /\ Len(rows) = SetsBefore(data, Len(data) + 1)
        /\ \A k \in 1..Len(data) : \A i \in 1..Len(data[k].sets) :
              LET r == rows[SetsBefore(data, k) + i]
              IN  /\ r.Date = data[k].date
                  /\ r.Workout = data[k].workout_type
                  /\ r.Exercise = data[k].exercise
                  /\ r.TargetReps = data[k].target_reps
                  /\ r.Set = i
                  /\ r.Weight = data[k].sets[i].weight
                  /\ r.Reps = data[k].sets[i].reps
        /\ \A n \in 1..Len(rows) :
              \E k \in 1..Len(data) :
                  /\ rows[n].Set \in 1..Len(data[k].sets)
                  /\ n = SetsBefore(data, k) + rows[n].Set

\* a session without sets before a session of two sets of another exercise
C3_Witness ==
    /\ pc # "start"
    /\ Len(data) = 2
    /\ Len(data[1].sets) = 0
    /\ Len(data[2].sets) = 2
    /\ Len(rows) = 2
    /\ rows[2].Set = 2

\* the rows of exercise e
RowsOf(e) == {j \in 1..Len(rows) : rows[j].Exercise = e}

\* row j carries the latest date of its exercise
IsLatest(j) == \A i \in RowsOf(rows[j].Exercise) : rows[i].Date <= rows[j].Date

\* entry x is what lines 179-185 make of row j
BuiltFrom(x, j) ==
    /\ x.Exercise = rows[j].Exercise
    /\ x.LastWeight = rows[j].Weight
    /\ x.HitTargetReps = (rows[j].Reps >= rows[j].TargetReps)
    /\ IsRounded2(x.Recommended,
                  rows[j].Weight * (IF x.HitTargetReps THEN 1025 ELSE 1000))

\* C4: with at least one history row, the latest-recommendations table has
\* exactly one entry per exercise name, built from one row of that exercise
\* that carries the exercise's latest date: last_weight is the row's weight,
\* hit_target is (reps >= target_reps) of that row, recommended_weight is the
\* weight times 1.025 (hit) or the weight (miss) rounded to 2 decimals.
C4_LatestPerExercise ==
    (pc \in {"viewed", "both"} /\ Len(rows) > 0) =>
        /\ \A e \in {rows[j].Exercise : j \in 1..Len(rows)} :
              Cardinality({i \in 1..Len(rec_rows) : rec_rows[i].Exercise = e}) = 1
        /\ \A i \in 1..Len(rec_rows) :
              \E j \in 1..Len(rows) : IsLatest(j) /\ BuiltFrom(rec_rows[i], j)

\* two exercises; the entry of one is a hit that raises the weight of its last
\* row, though another row of that exercise is heavier
C4_Witness ==
    /\ pc = "viewed"
    /\ Len(rec_rows) = 2
    /\ \E i \in 1..Len(rec_rows) :
          /\ rec_rows[i].HitTargetReps
          /\ rec_rows[i].Recommended > rec_rows[i].LastWeight
          /\ \E j \in RowsOf(rec_rows[i].Exercise) :
                rows[j].Weight > rec_rows[i].LastWeight

\* C5: among the rows of an exercise that share its latest date, the entry is
\* built from the one that comes last in the flattened rows.
C5_LastOfTies ==
    (pc \in {"viewed", "both"} /\ Len(rows) > 0) =>
        \A i \in 1..Len(rec_rows) :
            \E j \in 1..Len(rows) :
                /\ IsLatest(j)
                /\ \A k \in RowsOf(rows[j].Exercise) : IsLatest(k) => k <= j
                /\ BuiltFrom(rec_rows[i], j)

\* the sessions of each exercise have pairwise distinct dates
DistinctDates(d) ==
    \A i, j \in 1..Len(d) :
        (i # j /\ d[i].exercise = d[j].exercise) => d[i].date # d[j].date

\* C6: when the sessions of each exercise have pairwise distinct dates, the
\* latest recommendations are the same entries for every order of the sessions.
C6_OrderIndependent ==
    (pc = "both" /\ DistinctDates(data)) => Range(rec_rows) = Range(rec_rows_p)

(***************************************************************************)
(* Text of the input widgets: str.strip, float(), int().                   *)
(***************************************************************************)
Whitespace == {" ", "\t"}

DigitChars == <<"0", "1", "2", "3", "4", "5", "6", "7", "8", "9">>

IsDigit(c) == \E i \in 1..10 : DigitChars[i] = c

DigitVal(c) == (CHOOSE i \in 1..10 : DigitChars[i] = c) - 1

RECURSIVE LStrip(_)
LStrip(t) == IF Len(t) > 0 /\ t[1] \in Whitespace THEN LStrip(Tail(t)) ELSE t

RECURSIVE RStrip(_)
RStrip(t) ==
    IF Len(t) > 0 /\ t[Len(t)] \in Whitespace
    THEN RStrip(SubSeq(t, 1, Len(t) - 1)) ELSE t

\* str.strip(): leading and trailing whitespace removed
Strip(t) == RStrip(LStrip(t))

RECURSIVE DigitsVal(_)
\* value of a run of digits
DigitsVal(t) ==
    IF Len(t) = 0 THEN 0
    ELSE DigitsVal(SubSeq(t, 1, Len(t) - 1)) * 10 + DigitVal(t[Len(t)])

\* the text without surrounding whitespace and without one leading sign
Unsigned(t) ==
    LET s == Strip(t)
    IN  IF Len(s) > 0 /\ s[1] \in {"-", "+"} THEN Tail(s) ELSE s

IsNegative(t) == LET s == Strip(t) IN Len(s) > 0 /\ s[1] = "-"

\* int(text): whitespace, an optional sign, one or more digits
IntOk(t) ==
    LET b == Unsigned(t)
    IN  Len(b) > 0 /\ \A i \in 1..Len(b) : IsDigit(b[i])

IntVal(t) == (IF IsNegative(t) THEN -1 ELSE 1) * DigitsVal(Unsigned(t))

\* float(text): whitespace, an optional sign, digits with at most one point and
\* at least one digit
FloatOk(t) ==
    LET b == Unsigned(t)
        points == {i \in 1..Len(b) : b[i] = "."}
    IN  /\ Cardinality(points) <= 1
        /\ \A i \in 1..Len(b) : i \in points \/ IsDigit(b[i])
        /\ \E i \in 1..Len(b) : IsDigit(b[i])

\* the value in thousandths (texts of this model have at most 3 decimals)
FloatVal(t) ==
    LET b == Unsigned(t)
        points == {i \in 1..Len(b) : b[i] = "."}
        p == IF points = {} THEN Len(b) + 1 ELSE CHOOSE i \in points : TRUE
        whole == DigitsVal(SubSeq(b, 1, p - 1))
        frac == SubSeq(b, p + 1, Min(Len(b), p + 3))
        scale == IF Len(frac) = 0 THEN 1000
                 ELSE IF Len(frac) = 1 THEN 100
                 ELSE IF Len(frac) = 2 THEN 10 ELSE 1
    IN  (IF IsNegative(t) THEN -1 ELSE 1) * (whole * 1000 + DigitsVal(frac) * scale)

\* lines 119-123
w_val(t) ==
    IF Strip(t) = <<>> THEN 0
    ELSE IF FloatOk(t) THEN FloatVal(t) ELSE 0

\* lines 125-129
r_val(t) ==
    IF Strip(t) = <<>> THEN 0
    ELSE IF IntOk(t) THEN IntVal(t) ELSE 0

(***************************************************************************)
(* workouts.json: json.dumps / json.loads, load_data, save_data.  The text *)
(* is a sequence of tokens: "[", one object per session, "]".              *)
(***************************************************************************)
Open == <<"[">>
Close == <<"]">>

DumpSets(ss) == [i \in 1..Len(ss) |-> <<ss[i].weight, ss[i].reps>>]

DumpSession(e) ==
    <<"{", e.date, e.workout_type, e.exercise, e.target_reps, DumpSets(e.sets)>>

\* json.dumps(data, indent=2)
Dumps(d) == <<Open>> \o [i \in 1..Len(d) |-> DumpSession(d[i])] \o <<Close>>

IsObject(tok) == Len(tok) = 6 /\ tok[1] = "{"

\* the text is one complete JSON list
WellFormed(text) ==
    /\ Len(text) >= 2
    /\ text[1] = Open
    /\ text[Len(text)] = Close
    /\ \A i \in 2..(Len(text) - 1) : IsObject(text[i])

LoadSets(ts) == [i \in 1..Len(ts) |-> [weight |-> ts[i][1], reps |-> ts[i][2]]]

LoadSession(tok) ==
    [date         |-> tok[2],
     workout_type |-> tok[3],
     exercise     |-> tok[4],
     target_reps  |-> tok[5],
     sets         |-> LoadSets(tok[6])]

\* json.loads of a well-formed text
Loads(text) == [i \in 1..(Len(text) - 2) |-> LoadSession(text[i + 1])]

\* lines 12-15
load_data(f) == IF f.exists THEN Loads(f.text) ELSE <<>>

save_data_last_only(d) ==
    [exists |-> TRUE, text |-> Dumps(SubSeq(d, Len(d), Len(d)))]

\* lines 18-19, the file once write_text has returned
save_data(d) == [exists |-> TRUE, text |-> Dumps(d)]

(***************************************************************************)
(* Spec: the Streamlit script (lines 41-189), one action per script run.   *)
(* Streamlit runs the whole script again on every widget event and on      *)
(* st.rerun(); a button is True only in the run its click started.  The    *)
(* widget values of a run are its inputs.                                  *)
(***************************************************************************)
\* "%M": minutes of 60 seconds
SecondsPerMinute == 60

\* datetime.now().strftime("%Y-%m-%d %H:%M")
strftime(t) == t \div SecondsPerMinute

\* the application starts shortly before a minute ends
StartTime == SecondsPerMinute - 3

\* st.number_input("Rest time (seconds)", min_value=5)
MinRestSeconds == 5

\* time.sleep(1)
SleepSeconds == 1

ExerciseTexts == {<<>>, <<" ", "\t">>, <<" ", "B", " ">>}
WorkoutTypes  == {"Upper"}
\* per set: the weight text and the reps text
SetTexts ==
    {<< <<"2", ".", "5">>, <<"1", ".", "5">> >>,
     << <<"-", "5">>, <<"-", "3">> >>}
NumSetsChoices == {1}

Init ==
    /\ pc = "idle"
    /\ file = NoFile
    /\ save_calls = 0
    /\ timer_running = FALSE
    /\ timer_end = 0
    /\ timer_display = ""
    /\ now = StartTime
    /\ RecIdle /\ FormIdle /\ HistIdle /\ PermIdle /\ ProcIdle

\* lines 137-149 without the strip() of line 138
SaveHandler_no_strip(d, ex, wt, tr, ws, rs, t) ==
    IF ex = <<>>
    THEN [data |-> d, file |-> file, calls |-> save_calls,
          message |-> "Please enter an exercise name."]
    ELSE LET d1 == Append(d, [date         |-> strftime(t),
                              workout_type |-> wt,
                              exercise     |-> Strip(ex),
                              target_reps  |-> tr,
                              sets         |-> [i \in 1..Min(Len(ws), Len(rs)) |->
                                                   [weight |-> ws[i], reps |-> rs[i]]]])
         IN  [data |-> d1, file |-> save_data(d1), calls |-> save_calls + 1,
              message |-> "Saved!"]

\* lines 137-149 with the button pressed: the list, the file, the number of
\* save_data calls and the message after the handler
SaveHandler(d, ex, wt, tr, ws, rs, t) ==
    IF Strip(ex) = <<>>
    THEN [data |-> d, file |-> file, calls |-> save_calls,
          message |-> "Please enter an exercise name."]
    ELSE LET d1 == Append(d, [date         |-> strftime(t),
                              workout_type |-> wt,
                              exercise     |-> Strip(ex),
                              target_reps  |-> tr,
                              sets         |-> [i \in 1..Min(Len(ws), Len(rs)) |->
                                                   [weight |-> ws[i], reps |-> rs[i]]]])
         IN  [data |-> d1, file |-> save_data(d1), calls |-> save_calls + 1,
              message |-> "Saved!"]

\* one run of the script with the buttons start, stop, save as given
ScriptRun(start, stop, save) ==
      LET t        == now                                          \* time.time()
          running1 == start \/ timer_running                       \* line 63
          end1     == IF start THEN t + MinRestSeconds ELSE timer_end  \* line 64
          running2 == running1 /\ ~stop                            \* line 67
          remaining == end1 - t                                    \* line 72
      IN
      /\ pc' = "idle"
      /\ timer_end' = end1
      /\ IF running2 /\ remaining > 0
         THEN \* lines 77-79: the run ends at st.rerun()
              /\ t + SleepSeconds <= StartTime + MaxElapsed
              /\ timer_running' = TRUE
              /\ timer_display' = "remaining"
              /\ now' = t + SleepSeconds
              /\ exercise' = <<>> /\ workout_type' = "Upper"
              /\ w_txt' = <<>> /\ r_txt' = <<>>
              /\ save_clicked' = FALSE /\ message' = ""
              /\ weights' = <<>> /\ reps' = <<>> /\ target_reps' = 10 /\ rec' = 0
              /\ data' = <<>> /\ rows' = <<>> /\ rec_rows' = <<>>
              /\ UNCHANGED <<storeVars>>
         ELSE \E ex \in ExerciseTexts, wt \in WorkoutTypes, n \in NumSetsChoices :
              \E tx \in [1..n -> SetTexts] :
              \E ws \in {[i \in 1..n |-> w_val(tx[i][1])]} :          \* lines 119-131
              \E rs \in {[i \in 1..n |-> r_val(tx[i][2])]} :          \* lines 125-132
              \E d0 \in {load_data(file)} :                          \* line 82
              \E h \in {IF save THEN SaveHandler(d0, ex, wt, 10, ws, rs, t)
                        ELSE [data |-> d0, file |-> file, calls |-> save_calls,
                              message |-> ""]} :
              /\ Len(h.data) <= MaxSessions
              /\ timer_running' = FALSE                            \* line 74
              /\ timer_display' = (IF running2 THEN "complete" ELSE "")
              /\ now' = t
              /\ exercise' = ex /\ workout_type' = wt
              /\ w_txt' = [i \in 1..n |-> tx[i][1]]
              /\ r_txt' = [i \in 1..n |-> tx[i][2]]
              /\ weights' = ws /\ reps' = rs /\ target_reps' = 10
              /\ rec' = recommend_next_week(ws, rs, 10)            \* line 134
              /\ save_clicked' = save
              /\ message' = h.message
              /\ data' = h.data
              /\ file' = h.file
              /\ save_calls' = h.calls
              /\ LET rws == Flatten(h.data)                        \* lines 154-166
                 IN  /\ rows' = rws
                     /\ IF Len(h.data) = 0 THEN rec_rows' = <<>>
                        ELSE rec_rows' \in RecRowsChoices(rws)     \* lines 175-185
      /\ UNCHANGED <<permVars, procVars>>

\* a widget changed, or st.rerun() of the timer
RunView == ScriptRun(FALSE, FALSE, FALSE)

\* "Start Rest Timer" clicked
RunStartTimer == ScriptRun(TRUE, FALSE, FALSE)

\* "Stop Timer" clicked
RunStopTimer == ScriptRun(FALSE, TRUE, FALSE)

\* "Save workout" clicked
RunSave == ScriptRun(FALSE, FALSE, TRUE)

\* the user waits a second between two runs
TimePasses ==
    /\ now + 1 <= StartTime + MaxElapsed
    /\ now' = now + 1
    /\ UNCHANGED <<pc, recVars, formVars, histVars, permVars, storeVars,
                   timer_running, timer_end, timer_display, procVars>>

Next == RunView \/ RunStartTimer \/ RunStopTimer \/ RunSave \/ TimePasses

Spec == Init /\ [][Next]_vars

\* C7: when "Save workout" is pressed with an exercise name that is empty or
\* only whitespace, the run shows the error and changes nothing: the list is
\* the loaded one, save_data is not called and the file is the same as before.
C7_BlankNameRejected ==
    [][(save_clicked' /\ Strip(exercise') = <<>>) =>
          /\ message' = "Please enter an exercise name."
          /\ data' = load_data(file)
          /\ save_calls' = save_calls
          /\ file' = file]_vars

\* a whitespace-only name rejected while a session is stored and the form
\* holds a set
C7_Witness ==
    /\ save_clicked
    /\ exercise = <<" ", "\t">>
    /\ message = "Please enter an exercise name."
    /\ Len(weights) = 1
    /\ Len(load_data(file)) = 1
    /\ data = load_data(file)
    /\ save_calls = 1

\* C8: over every step the stored collection before is a prefix of the one
\* after; a step that calls save_data adds exactly one session at the end, and
\* every other step leaves the collection as it is.
C8_AppendOnly ==
    [][/\ IsPrefix(load_data(file), load_data(file'))
       /\ save_calls' # save_calls => Len(load_data(file')) = Len(load_data(file)) + 1
       /\ save_calls' = save_calls => load_data(file') = load_data(file)]_vars

\* two different sessions stored by two saves, the second just made
C8_Witness ==
    /\ save_clicked
    /\ message = "Saved!"
    /\ save_calls = 2
    /\ Len(load_data(file)) = 2
    /\ load_data(file)[1] # load_data(file)[2]
    /\ data = load_data(file)

\* C10: every set of every stored session has weight >= 0 and reps >= 0.
C10_NonNegativeSets ==
    \A i \in 1..Len(load_data(file)) :
        \A k \in 1..Len(load_data(file)[i].sets) :
            /\ load_data(file)[i].sets[k].weight >= 0
            /\ load_data(file)[i].sets[k].reps >= 0

(***************************************************************************)
(* SpecStore: load_data and save_data step by step, for the script runs of *)
(* two browser sessions (Streamlit runs each session's script in a thread  *)
(* of its own) and a save that is cut short.  Path.write_text opens the    *)
(* file with mode "w", which empties it, then writes the text through a    *)
(* buffered writer and closes it.                                          *)
(***************************************************************************)
Runs == {1, 2}

\* tokens that reach the file per flush of the buffered writer
WriteChunk == 2

\* the session run r logs
LoggedBy(r) == SampleSession(1, IF r = 1 THEN <<"B">> ELSE <<"S">>, <<SetB>>)

StoreInit ==
    /\ pc = "store"
    /\ file = NoFile
    /\ committed = <<>>
    /\ procs = [r \in Runs |-> [at |-> "idle", data |-> <<>>, out |-> <<>>]]
    /\ save_calls = 0
    /\ RecIdle /\ FormIdle /\ HistIdle /\ PermIdle /\ TimerIdle

StoreUnchanged ==
    UNCHANGED <<pc, recVars, formVars, histVars, permVars, timerVars>>

\* line 82: data = load_data(); json.loads raises on a text that is no
\* complete JSON document, and the run ends with that exception
LoadData(r) ==
    /\ procs[r].at = "idle"
    /\ IF file.exists /\ ~WellFormed(file.text)
       THEN procs' = [procs EXCEPT ![r] = [at |-> "error", data |-> <<>>, out |-> <<>>]]
       ELSE procs' = [procs EXCEPT ![r] = [at |-> "loaded", data |-> load_data(file),
                                            out |-> <<>>]]
    /\ UNCHANGED <<file, committed, save_calls>>
    /\ StoreUnchanged

\* the run ends without a save (no click, or the name was rejected), or the
\* page is loaded again after a failed run
EndRun(r) ==
    /\ procs[r].at \in {"loaded", "error"}
    /\ procs' = [procs EXCEPT ![r] = [at |-> "idle", data |-> <<>>, out |-> <<>>]]
    /\ UNCHANGED <<file, committed, save_calls>>
    /\ StoreUnchanged

\* lines 141-148 up to open(): the session is appended, json.dumps has made
\* the text, and open(mode="w") has emptied the file
SaveOpen(r) ==
    /\ procs[r].at = "loaded"
    /\ Len(procs[r].data) < MaxSessions
    /\ LET d1 == Append(procs[r].data, LoggedBy(r))
       IN  procs' = [procs EXCEPT ![r] = [at |-> "writing", data |-> d1, out |-> Dumps(d1)]]
    /\ file' = [exists |-> TRUE, text |-> <<>>]
    /\ save_calls' = save_calls + 1
    /\ UNCHANGED committed
    /\ StoreUnchanged

\* the next part of the text reaches the file; after the last part the file is
\* closed and save_data returns
SaveWrite(r) ==
    /\ procs[r].at = "writing"
    /\ LET k    == Min(WriteChunk, Len(procs[r].out))
           rest == SubSeq(procs[r].out, k + 1, Len(procs[r].out))
       IN  /\ file' = [exists |-> TRUE, text |-> file.text \o SubSeq(procs[r].out, 1, k)]
           /\ IF Len(rest) = 0
              THEN /\ procs' = [procs EXCEPT ![r] = [at |-> "idle", data |-> <<>>,
                                                      out |-> <<>>]]
                   /\ committed' = procs[r].data
              ELSE /\ procs' = [procs EXCEPT ![r].out = rest]
                   /\ UNCHANGED committed
    /\ UNCHANGED save_calls
    /\ StoreUnchanged

\* the server process is stopped while the run is inside write_text
Interrupt(r) ==
    /\ procs[r].at = "writing"
    /\ procs' = [procs EXCEPT ![r] = [at |-> "idle", data |-> <<>>, out |-> <<>>]]
    /\ UNCHANGED <<file, committed, save_calls>>
    /\ StoreUnchanged

StoreNext ==
    \E r \in Runs :
        LoadData(r) \/ EndRun(r) \/ SaveOpen(r) \/ SaveWrite(r) \/ Interrupt(r)

SpecStore == StoreInit /\ [][StoreNext]_vars

\* C9: at every moment, also while a save is under way or after it was cut
\* short, the file holds a complete collection: the one stored before the save
\* or the one being saved.
C9_SaveAtomic ==
    file.exists =>
        /\ WellFormed(file.text)
        /\ \/ Loads(file.text) = committed
           \/ \E r \in Runs : procs[r].at = "writing" /\ Loads(file.text) = procs[r].data

====
